---- MODULE Spec2Model ----
(***************************************************************************)
(* DVD Library (custom_components/dvd_library): the record store and its   *)
(* reconciliation engine (DvdLibrary), the OMDb lookup (fetch_omdb) and    *)
(* the service layer that dispatches calls to them.                        *)
(*                                                                         *)
(* Python values are tagged records, so that None, text and integers can   *)
(* be compared with each other as Python compares them (never equal).      *)
(* Text is a sequence of characters, so that strip(), isdigit() and int()  *)
(* are computed and not assumed.                                           *)
(***************************************************************************)
EXTENDS Integers, Sequences, FiniteSets, TLC

\* ------------------------------------------------------------------ bounds
\* the largest collection the model lets add_item build
MaxItems == 2
\* how many lookups the model lets fail (urlopen raising) in one run
MaxFailures == 1

\* ----------------------------------------------------------- Python values
None == [t |-> "None"]
Str(s) == [t |-> "str", s |-> s]
Num(n) == [t |-> "int", n |-> n]
\* a value that is neither None, text nor an integer (a float such as 1.5)
Float == [t |-> "float"]

\* bool(v)
Truthy(v) ==
    CASE v.t = "None" -> FALSE
      [] v.t = "str" -> v.s # <<>>
      [] v.t = "int" -> v.n # 0
      [] OTHER -> TRUE

Digits == <<"0", "1", "2", "3", "4", "5", "6", "7", "8", "9">>

DigitChars == {Digits[i] : i \in 1..10}

DigitValue(c) == (CHOOSE i \in 1..10 : Digits[i] = c) - 1

RECURSIVE lstrip(_)
lstrip(s) == IF s # <<>> /\ Head(s) = " " THEN lstrip(Tail(s)) ELSE s

RECURSIVE rstrip(_)
rstrip(s) ==
    IF s # <<>> /\ s[Len(s)] = " " THEN rstrip(SubSeq(s, 1, Len(s) - 1)) ELSE s

\* str.strip()
strip(s) == rstrip(lstrip(s))

\* str.isdigit()
isdigit(s) == s # <<>> /\ \A i \in 1..Len(s) : s[i] \in DigitChars

\* int(s) of all-digit text
RECURSIVE int(_)
int(s) ==
    IF s = <<>> THEN 0
    ELSE 10 * int(SubSeq(s, 1, Len(s) - 1)) + DigitValue(s[Len(s)])

\* the decimal text of a natural number
RECURSIVE NatText(_)
NatText(n) ==
    IF n < 10 THEN <<Digits[n + 1]>>
    ELSE NatText(n \div 10) \o <<Digits[(n % 10) + 1]>>

\* str(v) of a value (text stays as it is)
str(v) ==
    CASE v.t = "str" -> v
      [] v.t = "int" -> Str(IF v.n < 0 THEN <<"-">> \o NatText(-v.n) ELSE NatText(v.n))
      [] OTHER -> Str(<<"?">>)

\* ------------------------------------------------------------------- dicts
\* d.get(k)
Get(d, k) == IF k \in DOMAIN d THEN d[k] ELSE None

\* d.update(u): every key of u overwrites, the other keys stay
DictUpdate(d, u) ==
    [k \in (DOMAIN d) \cup (DOMAIN u) |-> IF k \in DOMAIN u THEN u[k] ELSE d[k]]

\* {k: v for k, v in d.items() if k != key}
Without(d, key) == [k \in (DOMAIN d) \ {key} |-> d[k]]

\* ------------------------------------------------------------ box parsing
\* DvdLibrary._parse_box raises ValueError("Box must be an integer")
_parse_box_raises(value) ==
    CASE value.t = "None" -> FALSE
      [] value.t = "str" -> strip(value.s) # <<>> /\ ~isdigit(strip(value.s))
      [] value.t = "int" -> FALSE
      [] OTHER -> TRUE

\* _parse_box with the test of line 55 giving 0 for empty text
_parse_box_blank_zero(value) ==
    CASE value.t = "None" -> None
      [] value.t = "str" ->
            IF strip(value.s) = <<>> THEN Num(0) ELSE Num(int(strip(value.s)))
      [] value.t = "int" -> value
      [] OTHER -> None

\* DvdLibrary._parse_box, where it returns
_parse_box(value) ==
    CASE value.t = "None" -> None
      [] value.t = "str" ->
            IF strip(value.s) = <<>> THEN None ELSE Num(int(strip(value.s)))
      [] value.t = "int" -> value
      [] OTHER -> None

\* ------------------------------------------------------------- OMDb lookup
\* the request fetch_omdb sends: its query parameters, or nothing when it
\* returns None before any request
NoRequest == [kind |-> "none"]

OmdbParams(key, title, imdb_id, year) ==
    IF ~Truthy(key) THEN NoRequest
    ELSE IF ~Truthy(imdb_id) /\ ~Truthy(title) THEN NoRequest
    ELSE [kind |-> "get",
          params |->
            DictUpdate(
                DictUpdate([apikey |-> key, type |-> Str(<<"m", "o", "v", "i", "e">>)],
                           IF Truthy(imdb_id) THEN [i |-> imdb_id] ELSE [t |-> title]),
                IF Truthy(year) THEN [y |-> str(year)] ELSE <<>>)]

\* texts of the model
TrueText == <<"T", "r", "u", "e">>
FalseText == <<"F", "a", "l", "s", "e">>
NAText == <<"N", "/", "A">>
Dune == <<"D", "u", "n", "e">>
Blank == <<" ">>
Y1984 == <<"1", "9", "8", "4">>
tt1 == <<"t", "t", "1">>
tt2 == <<"t", "t", "2">>
b1 == <<"1", "2", "3">>
PlotText == <<"p">>
TheKey == <<"k">>

\* what the OMDb server knows: one film. Plot stands for the metadata fields
\* fetch_omdb copies unchanged (Runtime, Genre, Director, Actors, Plot,
\* imdbRating, Rated, Released, Language, Country, Awards).
OmdbMovies ==
    {[Response |-> Str(TrueText), Title |-> Str(Dune), Year |-> Str(Y1984),
      imdbID |-> Str(tt1), Plot |-> Str(PlotText), Poster |-> Str(NAText)]}

\* the outcomes of urlopen + json.loads for a request: it raises (timeout,
\* network error, malformed payload), or yields the server's document
HttpReplies(req) ==
    IF req.kind = "none" THEN {[kind |-> "unused"]}
    ELSE {[kind |-> "raise"], [kind |-> "json", data |-> [Response |-> Str(FalseText)]]}
         \cup {[kind |-> "json", data |-> m] :
                m \in {d \in OmdbMovies :
                        IF "i" \in DOMAIN req.params
                        THEN d.imdbID = req.params.i
                        ELSE /\ d.Title = req.params.t
                             /\ ("y" \in DOMAIN req.params => d.Year = req.params.y)}}

\* the dict fetch_omdb builds from a document; plot stands for the ten other
\* descriptive fields (genres, runtime, ...), each copied the same way
omdb_meta(data) ==
    [title |-> Get(data, "Title"),
     year |-> Get(data, "Year"),
     imdb_id |-> Get(data, "imdbID"),
     plot |-> Get(data, "Plot"),
     poster |-> IF Get(data, "Poster") = Str(NAText) THEN None ELSE Get(data, "Poster")]

\* fetch_omdb(api_key, title, imdb_id, year), given what the request yields:
\* kind "raise" (the exception propagates), "none" (returns None) or "meta"
fetch_omdb(key, title, imdb_id, year, reply) ==
    IF OmdbParams(key, title, imdb_id, year).kind = "none" THEN [kind |-> "none"]
    ELSE IF reply.kind = "raise" THEN [kind |-> "raise"]
    ELSE IF str(Get(reply.data, "Response")) # Str(TrueText) THEN [kind |-> "none"]
    ELSE [kind |-> "meta", meta |-> omdb_meta(reply.data)]

\* fetch_omdb for an item's title, imdb_id and year
lookup(key, it, reply) ==
    fetch_omdb(key, Get(it, "title"), Get(it, "imdb_id"), Get(it, "year"), reply)

\* ------------------------------------------------------------- the library
VARIABLES
    items,      \* DvdLibrary.items: the in-memory collection, in order
    persisted,  \* the "items" of the document last given to Store.async_save
    api_key,    \* DvdLibrary.api_key: None or the OMDb key
    pc,         \* "idle", or "done": a handler has run and its wrapper returns next
    call,       \* the service call in flight
    ret,        \* how the call in flight ended
    added,      \* history (s_add_recorded): the imdb_id values add_item was given
    failures,   \* history: how many lookups have raised so far
    suspended   \* the frame of a handler waiting at async_add_executor_job

vars == <<items, persisted, api_key, pc, call, ret, added, failures, suspended>>

\* the replies the lookup for an item can meet
LookupReplies(key, it) ==
    {r \in HttpReplies(OmdbParams(key, Get(it, "title"), Get(it, "imdb_id"),
                                  Get(it, "year"))) :
        r.kind = "raise" => failures < MaxFailures}

Min(S) == CHOOSE x \in S : \A y \in S : x <= y

\* DvdLibrary._find_index; 0 stands for None, positions count from 1
_find_index(its, key, value) ==
    LET hits == {i \in 1..Len(its) : Truthy(Get(its[i], key)) /\ Get(its[i], key) = value}
    IN IF hits = {} THEN 0 ELSE Min(hits)

\* _is_empty_item with "box" among the keys of line 68
_is_empty_item_with_box(it) ==
    LET empty(v) == v = None \/ (v.t = "str" /\ strip(v.s) = <<>>)
    IN \A k \in {"title", "year", "barcode", "imdb_id", "box"} : empty(Get(it, k))

\* DvdLibrary._is_empty_item
_is_empty_item(it) ==
    LET empty(v) == v = None \/ (v.t = "str" /\ strip(v.s) = <<>>)
    IN \A k \in {"title", "year", "barcode", "imdb_id"} : empty(Get(it, k))

\* list.pop(i), the list that is left
Pop(its, i) == SubSeq(its, 1, i - 1) \o SubSeq(its, i + 1, Len(its))

\* no handler waits for a lookup
NoFrame == [op |-> "none"]

\* the position of the dict that stood at position at, once the call c has
\* ended with res having resolved idx: remove_item and remove_index pop one
\* position, purge_nulls keeps the dicts that are not empty, every other
\* operation appends or changes dicts where they stand; 0: no longer held
resolved_after(at, c, res, idx, its) ==
    IF at = 0 THEN 0
    ELSE IF c.op \in {"remove_item", "remove_index"} /\ res = "ok"
    THEN (IF idx = at THEN 0 ELSE IF idx < at THEN at - 1 ELSE at)
    ELSE IF c.op = "purge_nulls"
    THEN (IF _is_empty_item(its[at]) THEN 0
          ELSE Cardinality({i \in 1..at : ~_is_empty_item(its[i])}))
    ELSE at

\* how a handler ends: the collection it leaves, whether _async_save_and_signal
\* ran (and how often), the exception that reaches the service wrapper ("ok"
\* when none), whether a lookup raised, the value returned, and the position
\* the handler resolved and logs (0: none)
End(its, saves, res, lookup_raised, val, idx) ==
    /\ items' = its
    /\ persisted' = IF saves > 0 THEN its ELSE persisted
    /\ ret' = [res |-> res, saves |-> saves, signals |-> saves,
               lookup_raised |-> lookup_raised, val |-> val, idx |-> idx]
    /\ failures' = IF lookup_raised THEN failures + 1 ELSE failures
    /\ suspended' = IF suspended = NoFrame THEN NoFrame
                    ELSE [suspended EXCEPT
                            !.at = resolved_after(@, call', res, idx, items)]

\* ---------------------------------------------------------------- add_item
\* the candidate add_item builds from the call's data (lines 99-106)
add_candidate(data, box) ==
    [title |-> Get(data, "title"),
     year |-> IF Truthy(Get(data, "year")) THEN str(Get(data, "year")) ELSE None,
     barcode |-> Get(data, "barcode"),
     imdb_id |-> Get(data, "imdb_id"),
     added_by |-> Get(data, "added_by"),
     box |-> box]

\* the candidate after the enrichment of lines 107-117: a lookup that raises
\* is logged and leaves the candidate as it was
add_enriched(item, f) ==
    IF f.kind = "meta" THEN DictUpdate(item, f.meta) ELSE item

\* any([imdb_id, barcode, (title or "").strip()]) (line 119)
add_usable(item) ==
    \/ Truthy(Get(item, "imdb_id"))
    \/ Truthy(Get(item, "barcode"))
    \/ (Truthy(Get(item, "title")) /\ strip(Get(item, "title").s) # <<>>)

\* the title scan of lines 128-132
add_title_index(its, item) ==
    LET hits == {i \in 1..Len(its) :
                    /\ Get(its[i], "title") = item.title
                    /\ (~Truthy(Get(item, "year")) \/ Get(its[i], "year") = Get(item, "year"))}
    IN IF hits = {} THEN 0 ELSE Min(hits)

\* add_match with the imdb_id lookup of lines 124-125 left out
add_match_without_id(its, item) ==
    LET byBarcode == IF Truthy(Get(item, "barcode"))
                     THEN _find_index(its, "barcode", item.barcode) ELSE 0
    IN IF byBarcode = 0 /\ Truthy(Get(item, "title"))
       THEN add_title_index(its, item) ELSE byBarcode

\* add_match with the lookups of lines 124-127 in the other order: the barcode
\* is looked up before the imdb_id
add_match_barcode_first(its, item) ==
    LET byBarcode == IF Truthy(Get(item, "barcode"))
                     THEN _find_index(its, "barcode", item.barcode) ELSE 0
        byId == IF byBarcode = 0 /\ Truthy(Get(item, "imdb_id"))
                THEN _find_index(its, "imdb_id", item.imdb_id) ELSE byBarcode
    IN IF byId = 0 /\ Truthy(Get(item, "title"))
       THEN add_title_index(its, item) ELSE byId

\* the match of lines 123-132; 0 stands for None
add_match(its, item) ==
    LET byId == IF Truthy(Get(item, "imdb_id"))
                THEN _find_index(its, "imdb_id", item.imdb_id) ELSE 0
        byBarcode == IF byId = 0 /\ Truthy(Get(item, "barcode"))
                     THEN _find_index(its, "barcode", item.barcode) ELSE byId
    IN IF byBarcode = 0 /\ Truthy(Get(item, "title"))
       THEN add_title_index(its, item) ELSE byBarcode

\* add_merge with the test of line 135 left out: the box is overwritten too
add_merge_with_box(existing, item) == DictUpdate(existing, item)

\* the merge of lines 135-137 into the existing item
add_merge(existing, item) ==
    LET boxed == IF item.box # None THEN DictUpdate(existing, [box |-> item.box])
                 ELSE existing
    IN DictUpdate(boxed, Without(item, "box"))

\* add_item with the merge of lines 134-137 done by taking the existing item
\* out and appending the merged one
add_item_moving_to_end(data) ==
    IF _parse_box_raises(Get(data, "box"))
    THEN End(items, 0, "ValueError", FALSE, None, 0)
    ELSE LET item0 == add_candidate(data, _parse_box(Get(data, "box"))) IN
         \E reply \in LookupReplies(api_key, item0) :
            LET f == lookup(api_key, item0, reply)
                item == add_enriched(item0, f)
                idx == add_match(items, item)
            IN IF ~add_usable(item)
               THEN End(items, 0, "ok", f.kind = "raise", None, 0)
               ELSE /\ idx = 0 => Len(items) < MaxItems
                    /\ End(IF idx # 0
                           THEN Append(Pop(items, idx), add_merge(items[idx], item))
                           ELSE Append(items, item),
                           1, "ok", f.kind = "raise", None, idx)

\* DvdLibrary.add_item(data)
add_item(data) ==
    IF _parse_box_raises(Get(data, "box"))
    THEN End(items, 0, "ValueError", FALSE, None, 0)
    ELSE LET item0 == add_candidate(data, _parse_box(Get(data, "box"))) IN
         \E reply \in LookupReplies(api_key, item0) :
            LET f == lookup(api_key, item0, reply)
                item == add_enriched(item0, f)
                idx == add_match(items, item)
            IN IF ~add_usable(item)
               THEN End(items, 0, "ok", f.kind = "raise", None, 0)
               ELSE /\ idx = 0 => Len(items) < MaxItems
                    /\ End(IF idx # 0 THEN [items EXCEPT ![idx] = add_merge(@, item)]
                           ELSE Append(items, item),
                           1, "ok", f.kind = "raise", None, idx)

\* ------------------------------------------------------------- update_item
SelectorKeys == <<"imdb_id", "barcode", "title">>

\* update_resolve with the test of line 152 left out: a selector that finds
\* nothing falls on the first item
update_resolve_or_first(its, selector) ==
    LET found == {j \in 1..3 : /\ Truthy(Get(selector, SelectorKeys[j]))
                               /\ _find_index(its, SelectorKeys[j],
                                             Get(selector, SelectorKeys[j])) # 0}
    IN IF found = {} THEN (IF its = <<>> THEN 0 ELSE 1)
       ELSE _find_index(its, SelectorKeys[Min(found)], Get(selector, SelectorKeys[Min(found)]))

\* the loop of lines 146-151: each populated key is tried in turn until one
\* finds an item; 0 stands for None
update_resolve(its, selector) ==
    LET found == {j \in 1..3 : /\ Truthy(Get(selector, SelectorKeys[j]))
                               /\ _find_index(its, SelectorKeys[j],
                                             Get(selector, SelectorKeys[j])) # 0}
    IN IF found = {} THEN 0
       ELSE _find_index(its, SelectorKeys[Min(found)], Get(selector, SelectorKeys[Min(found)]))

\* the updates with their box parsed (lines 155-157)
update_parsed(updates) ==
    IF "box" \in DOMAIN updates
    THEN DictUpdate(updates, [box |-> _parse_box(updates.box)])
    ELSE updates

\* the condition of line 161 for a second lookup
update_needs_lookup(updates, key) ==
    /\ \E k \in {"title", "year", "imdb_id"} : k \in DOMAIN updates
    /\ Truthy(key)

\* DvdLibrary.update_item(selector, updates)
update_item(selector, updates) ==
    LET idx == update_resolve(items, selector) IN
    IF idx = 0 THEN End(items, 0, "ValueError", FALSE, None, 0)
    ELSE IF "box" \in DOMAIN updates /\ _parse_box_raises(updates.box)
    THEN End(items, 0, "ValueError", FALSE, None, idx)
    ELSE LET its1 == [items EXCEPT ![idx] = DictUpdate(@, update_parsed(updates))] IN
         IF update_needs_lookup(updates, api_key)
         THEN \E reply \in LookupReplies(api_key, its1[idx]) :
                LET f == lookup(api_key, its1[idx], reply) IN
                IF f.kind = "raise"
                THEN End(its1, 0, "Exception", TRUE, None, idx)
                ELSE End(IF f.kind = "meta"
                         THEN [its1 EXCEPT ![idx] = DictUpdate(@, f.meta)] ELSE its1,
                         1, "ok", FALSE, None, idx)
         ELSE End(its1, 1, "ok", FALSE, None, idx)

\* ------------------------------------------------- remove_item / remove_index
\* next((k for k in ("imdb_id", "barcode", "title") if selector.get(k)), None);
\* 0 stands for None
first_key(selector) ==
    LET populated == {j \in 1..3 : Truthy(Get(selector, SelectorKeys[j]))}
    IN IF populated = {} THEN 0 ELSE Min(populated)

\* the position remove_item and refresh_metadata resolve: the first populated
\* key alone is looked up; 0 stands for None
remove_resolve(its, selector) ==
    IF first_key(selector) = 0 THEN 0
    ELSE _find_index(its, SelectorKeys[first_key(selector)],
                    Get(selector, SelectorKeys[first_key(selector)]))

\* DvdLibrary.remove_item(selector)
remove_item(selector) ==
    IF first_key(selector) = 0 THEN End(items, 0, "ValueError", FALSE, None, 0)
    ELSE IF remove_resolve(items, selector) = 0
    THEN End(items, 0, "ValueError", FALSE, None, 0)
    ELSE End(Pop(items, remove_resolve(items, selector)), 1, "ok", FALSE, None,
             remove_resolve(items, selector))

\* remove_index with the test of line 87 one off: an index equal to the length
\* is taken as a position
remove_index_to_length(index) ==
    IF index.t # "int" THEN End(items, 0, "ValueError", FALSE, None, 0)
    ELSE IF index.n < 0 \/ index.n > Len(items)
    THEN End(items, 0, "ValueError", FALSE, None, 0)
    ELSE End(Pop(items, index.n + 1), 1, "ok", FALSE, None, index.n + 1)

\* DvdLibrary.remove_index(index): index counts from 0
remove_index(index) ==
    IF index.t # "int" THEN End(items, 0, "ValueError", FALSE, None, 0)
    ELSE IF index.n < 0 \/ index.n >= Len(items)
    THEN End(items, 0, "ValueError", FALSE, None, 0)
    ELSE End(Pop(items, index.n + 1), 1, "ok", FALSE, None, index.n + 1)

\* -------------------------------------------------------- refresh_metadata
\* the targets of lines 186-194, as positions
refresh_targets(its, selector) ==
    IF remove_resolve(its, selector) # 0 THEN <<remove_resolve(its, selector)>>
    ELSE [i \in 1..Len(its) |-> i]

\* the loop of lines 198-204 from target j on, with replies[j] what the j-th
\* lookup meets: the collection it leaves and whether a lookup raised
RECURSIVE refresh_loop(_, _, _, _, _)
refresh_loop(its, key, targets, replies, j) ==
    IF j > Len(targets) THEN [items |-> its, raised |-> FALSE]
    ELSE LET f == lookup(key, its[targets[j]], replies[j]) IN
         IF f.kind = "raise" THEN [items |-> its, raised |-> TRUE]
         ELSE refresh_loop(IF f.kind = "meta"
                           THEN [its EXCEPT ![targets[j]] = DictUpdate(@, f.meta)]
                           ELSE its,
                           key, targets, replies, j + 1)

\* every reply a lookup can meet
AllReplies ==
    {[kind |-> "unused"], [kind |-> "raise"],
     [kind |-> "json", data |-> [Response |-> Str(FalseText)]]}
    \cup {[kind |-> "json", data |-> m] : m \in OmdbMovies}

\* DvdLibrary.refresh_metadata(selector)
refresh_metadata(selector) ==
    LET targets == refresh_targets(items, selector) IN
    IF ~Truthy(api_key) THEN End(items, 0, "ok", FALSE, None, 0)
    ELSE \E replies \in [1..Len(targets) -> AllReplies] :
            /\ \A j \in 1..Len(targets) :
                    replies[j] \in LookupReplies(api_key, items[targets[j]])
            /\ LET r == refresh_loop(items, api_key, targets, replies, 1) IN
               IF r.raised THEN End(r.items, 0, "Exception", TRUE, None, 0)
               ELSE End(r.items, 1, "ok", FALSE, None, 0)

\* ------------------------------------------------------ purge_nulls, move_box
\* [it for it in its if not _is_empty_item(it)]
RECURSIVE purge_filter(_)
purge_filter(its) ==
    IF its = <<>> THEN <<>>
    ELSE IF _is_empty_item(Head(its)) THEN purge_filter(Tail(its))
    ELSE <<Head(its)>> \o purge_filter(Tail(its))

\* DvdLibrary.purge_nulls()
purge_nulls ==
    End(purge_filter(items), 1, "ok", FALSE,
        Num(Len(items) - Len(purge_filter(items))), 0)

\* move_box_items with the endpoints of lines 214-215 exchanged: the items of
\* to_box are set to from_box
move_box_items_back(its, from_box_int, to_box_int) ==
    [i \in 1..Len(its) |->
        IF Get(its[i], "box") = to_box_int
        THEN DictUpdate(its[i], [box |-> from_box_int]) ELSE its[i]]

\* the collection after the loop of lines 213-216
move_box_items(its, from_box_int, to_box_int) ==
    [i \in 1..Len(its) |->
        IF Get(its[i], "box") = from_box_int
        THEN DictUpdate(its[i], [box |-> to_box_int]) ELSE its[i]]

\* move_box with the test of line 217 left out: it saves and signals whether
\* or not an item moved
move_box_always_saving(from_box, to_box) ==
    IF _parse_box_raises(from_box) \/ _parse_box_raises(to_box)
    THEN End(items, 0, "ValueError", FALSE, None, 0)
    ELSE IF _parse_box(from_box) = None \/ _parse_box(to_box) = None
    THEN End(items, 0, "ValueError", FALSE, None, 0)
    ELSE LET moved == Cardinality({i \in 1..Len(items) :
                                    Get(items[i], "box") = _parse_box(from_box)})
         IN End(move_box_items(items, _parse_box(from_box), _parse_box(to_box)),
                1, "ok", FALSE, Num(moved), 0)

\* DvdLibrary.move_box(from_box, to_box)
move_box(from_box, to_box) ==
    IF _parse_box_raises(from_box) \/ _parse_box_raises(to_box)
    THEN End(items, 0, "ValueError", FALSE, None, 0)
    ELSE IF _parse_box(from_box) = None \/ _parse_box(to_box) = None
    THEN End(items, 0, "ValueError", FALSE, None, 0)
    ELSE LET moved == Cardinality({i \in 1..Len(items) :
                                    Get(items[i], "box") = _parse_box(from_box)})
         IN End(move_box_items(items, _parse_box(from_box), _parse_box(to_box)),
                IF moved > 0 THEN 1 ELSE 0, "ok", FALSE, Num(moved), 0)

\* --------------------------------------------------------------- import_json
\* one add_item call of the loop of lines 290-291 on the collection its: the
\* collection it leaves, whether it saved, how it ended, whether its lookup
\* raised (as add_item above, lines 97-143)
add_item_step(its, key, data, reply) ==
    IF _parse_box_raises(Get(data, "box"))
    THEN [items |-> its, saved |-> FALSE, res |-> "ValueError", raised |-> FALSE]
    ELSE LET item0 == add_candidate(data, _parse_box(Get(data, "box")))
             f == lookup(key, item0, reply)
             item == add_enriched(item0, f)
             idx == add_match(its, item)
         IN IF ~add_usable(item)
            THEN [items |-> its, saved |-> FALSE, res |-> "ok", raised |-> f.kind = "raise"]
            ELSE [items |-> IF idx # 0 THEN [its EXCEPT ![idx] = add_merge(@, item)]
                            ELSE Append(its, item),
                  saved |-> TRUE, res |-> "ok", raised |-> f.kind = "raise"]

\* the entries s_import_json iterates (line 289)
import_entries(file) ==
    IF file.kind = "list" THEN file.data
    ELSE IF "items" \in DOMAIN file.data THEN file.data.items ELSE <<>>

\* the loop of lines 290-291 from entry j on, with replies[j] what the lookup
\* of entry j meets: the first add_item that raises ends it
RECURSIVE import_loop(_, _, _, _, _)
import_loop(its, key, entries, replies, j) ==
    IF j > Len(entries) THEN [items |-> its, saves |-> 0, res |-> "ok", raised |-> 0]
    ELSE LET r == add_item_step(its, key, entries[j], replies[j]) IN
         IF r.res # "ok" THEN [items |-> its, saves |-> 0, res |-> r.res, raised |-> 0]
         ELSE LET rest == import_loop(r.items, key, entries, replies, j + 1)
              IN [items |-> rest.items,
                  saves |-> rest.saves + (IF r.saved THEN 1 ELSE 0),
                  res |-> rest.res,
                  raised |-> rest.raised + (IF r.raised THEN 1 ELSE 0)]

\* the replies the lookups of an import can meet
ImportReplies(key, entries) ==
    {replies \in [1..Len(entries) -> AllReplies] :
        \A j \in 1..Len(entries) :
            IF _parse_box_raises(Get(entries[j], "box")) THEN replies[j].kind = "unused"
            ELSE replies[j] \in HttpReplies(OmdbParams(key, Get(entries[j], "title"),
                                                        Get(entries[j], "imdb_id"),
                                                        Get(entries[j], "year")))}

\* s_import_json (lines 280-291): path is call.data.get("path"), file what
\* is found at that path: nothing, text that is not JSON, a list, or a dict
import_json(path, file) ==
    IF ~Truthy(path) THEN End(items, 0, "ValueError", FALSE, None, 0)
    ELSE IF file.kind \in {"missing", "malformed"}
    THEN End(items, 0, "ValueError", FALSE, None, 0)
    ELSE \E replies \in ImportReplies(api_key, import_entries(file)) :
            LET r == import_loop(items, api_key, import_entries(file), replies, 1) IN
            /\ Len(r.items) <= MaxItems
            /\ failures + r.raised <= MaxFailures
            /\ items' = r.items
            /\ persisted' = IF r.saves > 0 THEN r.items ELSE persisted
            /\ ret' = [res |-> r.res, saves |-> r.saves, signals |-> r.saves,
                       lookup_raised |-> r.raised > 0, val |-> None, idx |-> 0]
            /\ failures' = failures + r.raised
            /\ UNCHANGED suspended

\* ----------------------------------------------------------- service calls
\* a handler runs from the dispatch of its call to its end: the call and how
\* it ended stay visible until the service wrapper returns
Dispatch(c) ==
    /\ pc = "idle"
    /\ call' = c
    /\ pc' = "done"
    /\ UNCHANGED api_key

s_add(D) ==
    \E d \in D :
        /\ Dispatch([op |-> "add_item", data |-> d])
        /\ add_item(d)
        /\ UNCHANGED added

\* s_add, with the history of the imdb_id values that add_item calls which
\* persisted have supplied
s_add_recorded(D) ==
    \E d \in D :
        /\ Dispatch([op |-> "add_item", data |-> d])
        /\ add_item(d)
        /\ added' = IF ret'.saves > 0 /\ Truthy(Get(d, "imdb_id"))
                    THEN added \cup {Get(d, "imdb_id")} ELSE added

s_update(S, U) ==
    \E sel \in S, u \in U :
        /\ Dispatch([op |-> "update_item", selector |-> sel, updates |-> u])
        /\ update_item(sel, u)
        /\ UNCHANGED added

s_remove(S) ==
    \E sel \in S :
        /\ Dispatch([op |-> "remove_item", data |-> sel])
        /\ remove_item(sel)
        /\ UNCHANGED added

s_remove_index(I) ==
    \E index \in I :
        /\ Dispatch([op |-> "remove_index", index |-> index])
        /\ IF index = None THEN End(items, 0, "ValueError", FALSE, None, 0)
           ELSE remove_index(index)
        /\ UNCHANGED added

s_refresh(S) ==
    \E sel \in S :
        /\ Dispatch([op |-> "refresh_metadata", data |-> sel])
        /\ refresh_metadata(sel)
        /\ UNCHANGED added

s_purge ==
    /\ Dispatch([op |-> "purge_nulls"])
    /\ purge_nulls
    /\ UNCHANGED added

s_set_box(S, B) ==
    \E sel \in S, box \in B :
        /\ Dispatch([op |-> "set_box", selector |-> sel, box |-> box])
        /\ IF box = None THEN End(items, 0, "ValueError", FALSE, None, 0)
           ELSE update_item(sel, [box |-> box])
        /\ UNCHANGED added

s_move_box(B) ==
    \E from_box \in B, to_box \in B :
        /\ Dispatch([op |-> "move_box", from_box |-> from_box, to_box |-> to_box])
        /\ IF from_box = None \/ to_box = None
           THEN End(items, 0, "ValueError", FALSE, None, 0)
           ELSE move_box(from_box, to_box)
        /\ UNCHANGED added

s_import_json(P, F) ==
    \E path \in P, file \in F :
        /\ Dispatch([op |-> "import_json", path |-> path, file |-> file])
        /\ import_json(path, file)
        /\ UNCHANGED added

NoCall == [op |-> "none"]
NoRet == [res |-> "none"]

\* the wrapper of _register_services_once returns or raises HomeAssistantError
Return ==
    /\ pc = "done"
    /\ pc' = "idle"
    /\ call' = NoCall
    /\ ret' = NoRet
    /\ UNCHANGED <<items, persisted, api_key, added, failures, suspended>>

\* ------------------------------------------- handlers waiting for a lookup
\* update_item and refresh_metadata await async_add_executor_job(fetch_omdb,
\* ...): the handler is suspended there and the event loop runs other calls
\* until the job is done. The frame keeps what the handler holds across the
\* await: its call, the positions it resolved (targets, and j, the one being
\* looked up), and the arguments of fetch_omdb, which are read before the
\* await. at is history: where the dict that stood at targets[j] when the
\* handler was suspended stands now. One handler at a time is suspended.
Frame(c, op, its, targets, j) ==
    [op |-> op, call |-> c, targets |-> targets, j |-> j, at |-> targets[j],
     key |-> api_key,
     args |-> [title |-> Get(its[targets[j]], "title"),
               imdb_id |-> Get(its[targets[j]], "imdb_id"),
               year |-> Get(its[targets[j]], "year")],
     result |-> [kind |-> "pending"]]

\* update_item up to its await (lines 146-162): a call that reaches the lookup
\* is suspended there, any other runs to its end
s_update_await(S, U) ==
    \E sel \in S, u \in U :
        LET c == [op |-> "update_item", selector |-> sel, updates |-> u]
            idx == update_resolve(items, sel)
            its1 == [items EXCEPT ![idx] = DictUpdate(@, update_parsed(u))]
        IN IF /\ idx # 0
              /\ ~("box" \in DOMAIN u /\ _parse_box_raises(u.box))
              /\ update_needs_lookup(u, api_key)
           THEN /\ pc = "idle"
                /\ suspended = NoFrame
                /\ items' = its1
                /\ suspended' = Frame(c, "update_item", its1, <<idx>>, 1)
                /\ UNCHANGED <<persisted, api_key, pc, call, ret, added, failures>>
           ELSE /\ Dispatch(c)
                /\ update_item(sel, u)
                /\ UNCHANGED added

\* refresh_metadata up to its first await (lines 186-200): without a key or
\* without a target it runs to its end
s_refresh_await(S) ==
    \E sel \in S :
        LET c == [op |-> "refresh_metadata", data |-> sel]
            targets == refresh_targets(items, sel)
        IN IF Truthy(api_key) /\ targets # <<>>
           THEN /\ pc = "idle"
                /\ suspended = NoFrame
                /\ suspended' = Frame(c, "refresh_metadata", items, targets, 1)
                /\ UNCHANGED <<items, persisted, api_key, pc, call, ret, added,
                               failures>>
           ELSE /\ Dispatch(c)
                /\ refresh_metadata(sel)
                /\ UNCHANGED added

\* the executor job ends: fetch_omdb has returned or raised, and the waiting
\* handler is to be resumed with that result
executor_job_done ==
    /\ suspended # NoFrame
    /\ suspended.result.kind = "pending"
    /\ \E reply \in {r \in HttpReplies(OmdbParams(suspended.key, suspended.args.title,
                                                  suspended.args.imdb_id,
                                                  suspended.args.year)) :
                        r.kind = "raise" => failures < MaxFailures} :
            LET f == fetch_omdb(suspended.key, suspended.args.title,
                                suspended.args.imdb_id, suspended.args.year, reply)
            IN /\ suspended' = [suspended EXCEPT !.result = f]
               /\ failures' = IF f.kind = "raise" THEN failures + 1 ELSE failures
    /\ UNCHANGED <<items, persisted, api_key, pc, call, ret, added>>

\* how a resumed handler ends: as End, for the call of its frame; idx is the
\* position it indexed last
Resumed(its, saves, res, idx) ==
    /\ items' = its
    /\ persisted' = IF saves > 0 THEN its ELSE persisted
    /\ call' = suspended.call
    /\ ret' = [res |-> res, saves |-> saves, signals |-> saves,
               lookup_raised |-> suspended.result.kind = "raise", val |-> None,
               idx |-> idx]
    /\ pc' = "done"
    /\ suspended' = NoFrame
    /\ UNCHANGED <<api_key, added, failures>>

\* self.items[idx].update(meta) after the await (lines 170, 204): the position
\* resolved before the await is indexed again
merge_resumed(its, idx, meta) == [its EXCEPT ![idx] = DictUpdate(@, meta)]

\* update_item from its await on (lines 162-172)
update_item_resume ==
    LET idx == suspended.targets[suspended.j] IN
    /\ pc = "idle"
    /\ suspended # NoFrame
    /\ suspended.op = "update_item"
    /\ suspended.result.kind # "pending"
    /\ IF suspended.result.kind = "raise" THEN Resumed(items, 0, "Exception", idx)
       ELSE IF suspended.result.kind = "none" THEN Resumed(items, 1, "ok", idx)
       ELSE IF idx > Len(items) THEN Resumed(items, 0, "IndexError", idx)
       ELSE Resumed(merge_resumed(items, idx, suspended.result.meta), 1, "ok", idx)

\* refresh_metadata from an await on (lines 200-205): the result is merged,
\* then the next target is read and looked up, or the collection is saved
refresh_metadata_resume ==
    LET idx == suspended.targets[suspended.j]
        its == IF suspended.result.kind = "meta"
               THEN merge_resumed(items, idx, suspended.result.meta) ELSE items
    IN
    /\ pc = "idle"
    /\ suspended # NoFrame
    /\ suspended.op = "refresh_metadata"
    /\ suspended.result.kind # "pending"
    /\ IF suspended.result.kind = "raise" THEN Resumed(items, 0, "Exception", idx)
       ELSE IF suspended.result.kind = "meta" /\ idx > Len(items)
       THEN Resumed(items, 0, "IndexError", idx)
       ELSE IF suspended.j = Len(suspended.targets) THEN Resumed(its, 1, "ok", idx)
       ELSE IF suspended.targets[suspended.j + 1] > Len(items)
       THEN Resumed(its, 0, "IndexError", suspended.targets[suspended.j + 1])
       ELSE /\ items' = its
            /\ suspended' = Frame(suspended.call, "refresh_metadata", its,
                                  suspended.targets, suspended.j + 1)
            /\ UNCHANGED <<persisted, api_key, pc, call, ret, added, failures>>

\* _options_updated: the options flow sets or clears the OMDb key
options_updated ==
    /\ pc = "idle"
    /\ api_key' \in {None, Str(TheKey)} \ {api_key}
    /\ UNCHANGED <<items, persisted, pc, call, ret, added, failures, suspended>>

\* ------------------------------------------------- the calls of the model
\* (a key that is absent from a call's data or selector reads as None)
\* add_item data without a box: identity fields in every combination, a
\* blank title alone
AddData ==
    {d \in [title : {None, Str(Dune), Str(Blank)}, year : {None},
            barcode : {None, Str(b1)}, imdb_id : {None, Str(tt1)},
            added_by : {None}, box : {None}] :
        d.title = Str(Blank) => (d.barcode = None /\ d.imdb_id = None)}

\* selectors: at most two keys populated; tt2 is held by no item
Selectors ==
    {sel \in [imdb_id : {None, Str(tt1), Str(tt2)}, barcode : {None, Str(b1)},
              title : {None, Str(Dune)}] :
        sel.imdb_id = None \/ sel.barcode = None \/ sel.title = None}

\* the updates of an update_item call: one key, or none
Updates ==
    {<<>>}
    \cup {[title |-> v] : v \in {None, Str(Dune)}}
    \cup {[barcode |-> v] : v \in {None, Str(b1)}}
    \cup {[imdb_id |-> v] : v \in {None, Str(tt1)}}
    \cup {[box |-> v] : v \in {Str(<<"a", "b", "c">>)}}

IndexValues == {None} \cup {Num(i) : i \in -1..MaxItems}

Init ==
    /\ items = <<>>
    /\ persisted = <<>>
    /\ api_key \in {None, Str(TheKey)}
    /\ pc = "idle"
    /\ call = NoCall
    /\ ret = NoRet
    /\ added = {}
    /\ failures = 0
    /\ suspended = NoFrame

Next ==
    \/ s_add(AddData)
    \/ s_update(Selectors, Updates)
    \/ s_remove(Selectors)
    \/ s_remove_index(IndexValues)
    \/ s_refresh(Selectors)
    \/ s_purge
    \/ Return
    \/ options_updated

Spec == Init /\ [][Next]_vars

\* adding and removing, with the history of the added imdb_id values
NextAdd ==
    \/ s_add_recorded(AddData)
    \/ s_remove(Selectors)
    \/ s_update({[imdb_id |-> Str(tt1)]}, {[imdb_id |-> None], [title |-> Str(Dune)]})
    \/ Return
    \/ options_updated

SpecAdd == Init /\ [][NextAdd]_vars

\* ---------------------------------------------------- the calls about boxes
\* box values of every kind _parse_box tells apart
BoxValues ==
    {None, Num(-1), Num(5), Num(7), Str(<<"5">>), Str(<<" ", "7", " ">>), Str(<<>>),
     Str(<<" ">>), Str(<<"a", "b", "c">>), Str(<<"-", "1">>), Float}

BoxAddData ==
    [title : {None, Str(Dune)}, year : {None}, barcode : {None},
     imdb_id : {None, Str(tt1)}, added_by : {None}, box : BoxValues]

BoxSelectors == {[imdb_id |-> Str(tt1)], [title |-> Str(Dune)]}

BoxUpdates == {[box |-> v] : v \in {None, Num(7), Str(<<"a", "b", "c">>)}}

MoveBoxValues ==
    {None, Num(-1), Num(5), Num(7), Str(<<"5">>), Str(<<" ">>), Str(<<"a", "b", "c">>)}

NextBox ==
    \/ s_add(BoxAddData)
    \/ s_update(BoxSelectors, BoxUpdates)
    \/ s_set_box(BoxSelectors, BoxValues)
    \/ s_move_box(MoveBoxValues)
    \/ s_remove_index(IndexValues)
    \/ Return

SpecBox == Init /\ [][NextBox]_vars

\* ------------------------------------------- the calls about matching
\* add_item data whose year varies: a number (1984, which add_item turns into
\* text) or none; a year comes with a title, and at most two of title,
\* barcode and imdb_id are given
MatchAddData ==
    {d \in [title : {None, Str(Dune)}, year : {None, Num(1984)},
            barcode : {None, Str(b1)}, imdb_id : {None, Str(tt1)},
            added_by : {None}, box : {None}] :
        /\ d.year # None => d.title # None
        /\ d.title = None \/ d.barcode = None \/ d.imdb_id = None}

NextMatch ==
    \/ s_add(MatchAddData)
    \/ Return

SpecMatch == Init /\ [][NextMatch]_vars

\* ------------------------------------- the calls about purging and order
\* items that update_item empties: with a box, with metadata, with a blank title
PurgeAddData ==
    {[title |-> Str(Dune), year |-> None, barcode |-> None, imdb_id |-> None,
      added_by |-> None, box |-> None],
     [title |-> None, year |-> None, barcode |-> Str(b1), imdb_id |-> None,
      added_by |-> None, box |-> Num(5)]}

PurgeSelectors == {[barcode |-> Str(b1)], [title |-> Str(Dune)]}

PurgeUpdates ==
    {[title |-> Str(Blank)], [barcode |-> None], [imdb_id |-> None], [year |-> None]}

NextPurge ==
    \/ s_add(PurgeAddData)
    \/ s_update(PurgeSelectors, PurgeUpdates)
    \/ s_purge
    \/ Return

SpecPurge == Init /\ [][NextPurge]_vars

\* every operation that writes the collection, on items that differ
NextOrder ==
    \/ s_add(PurgeAddData)
    \/ s_update({[barcode |-> Str(b1)]}, {[barcode |-> None]})
    \/ s_refresh({<<>>, [barcode |-> Str(b1)]})
    \/ s_move_box({Num(5), Num(7)})
    \/ s_remove(PurgeSelectors)
    \/ s_remove_index({Num(0), Num(1)})
    \/ s_purge
    \/ Return

SpecOrder == Init /\ [][NextOrder]_vars

\* ------------------------------------------------ the calls that parse a box
\* more texts: several digits, leading zeros, a space on one side or inside,
\* a digit followed by a letter
ParseBoxValues ==
    BoxValues \cup
    {Num(0), Str(<<"1", "2">>), Str(<<"0", "0", "7">>), Str(<<" ", "1", "2">>),
     Str(<<"1", " ", "2">>), Str(<<"1", "a">>)}

ParseAddData ==
    [title : {Str(Dune)}, year : {None}, barcode : {None}, imdb_id : {None},
     added_by : {None}, box : ParseBoxValues]

NextParse ==
    \/ s_add(ParseAddData)
    \/ s_update({[title |-> Str(Dune)]}, {[box |-> v] : v \in ParseBoxValues})
    \/ Return

SpecParse == Init /\ [][NextParse]_vars

\* -------------------------------------------------- the calls that import
PathText == <<"d", ".", "j", "s", "o", "n">>

\* the entries of an imported file: two good ones and one whose box is "abc"
ImportEntries ==
    {[title |-> Str(Dune)], [barcode |-> Str(b1), box |-> Str(<<"5">>)],
     [imdb_id |-> Str(tt1), box |-> Str(<<"a", "b", "c">>)]}

\* lists of up to MaxItems entries
ImportLists == UNION {[1..n -> ImportEntries] : n \in 0..MaxItems}

ImportFiles ==
    {[kind |-> "missing"], [kind |-> "malformed"]}
    \cup {[kind |-> "list", data |-> l] : l \in ImportLists}
    \cup {[kind |-> "dict", data |-> [items |-> l]] : l \in ImportLists}
    \cup {[kind |-> "dict", data |-> <<>>]}

NextImport ==
    \/ s_import_json({None, Str(PathText)}, ImportFiles)
    \/ s_remove_index(IndexValues)
    \/ Return

SpecImport == Init /\ [][NextImport]_vars

\* ---------------------------------- the calls that meet a waiting handler
\* two items that differ: one found by its barcode, one by its title, which
\* OMDb knows
AwaitAddData ==
    {[title |-> Str(Dune), year |-> None, barcode |-> None, imdb_id |-> None,
      added_by |-> None, box |-> None],
     [title |-> None, year |-> None, barcode |-> Str(b1), imdb_id |-> None,
      added_by |-> None, box |-> None]}

AwaitSelectors == {[barcode |-> Str(b1)], [title |-> Str(Dune)]}

\* a year makes update_item look up; a barcode set to None does not, and
\* leaves an item that purge_nulls removes
AwaitUpdates == {[year |-> None], [barcode |-> None]}

NextAwait ==
    \/ s_add(AwaitAddData)
    \/ s_update_await(AwaitSelectors, AwaitUpdates)
    \/ s_refresh_await({<<>>, [title |-> Str(Dune)]})
    \/ executor_job_done
    \/ update_item_resume
    \/ refresh_metadata_resume
    \/ s_remove(AwaitSelectors)
    \/ s_remove_index({Num(0), Num(1)})
    \/ s_purge
    \/ Return

SpecAwait == Init /\ [][NextAwait]_vars

\* ------------------------------------------------------------------ claims
\* a value that is present and not blank text
NonBlank(v) == Truthy(v) /\ (v.t = "str" => \E i \in 1..Len(v.s) : v.s[i] # " ")

\* the positions of a collection whose field k holds v
Holders(its, k, v) == {i \in 1..Len(its) : Get(its[i], k) = v}

\* a handler has just run, from the state before its call to its end
Ran(op) == pc = "idle" /\ pc' = "done" /\ call'.op = op

\* C1: no two distinct items of the collection have the same non-blank
\* imdb_id, whatever calls were made.
C1_UniqueExternalId ==
    \A i, j \in 1..Len(items) :
        (i # j /\ NonBlank(Get(items[i], "imdb_id")))
            => Get(items[i], "imdb_id") # Get(items[j], "imdb_id")

\* C2: no two distinct items of the collection have the same non-blank
\* barcode, whatever calls were made.
C2_UniqueBarcode ==
    \A i, j \in 1..Len(items) :
        (i # j /\ NonBlank(Get(items[i], "barcode")))
            => Get(items[i], "barcode") # Get(items[j], "barcode")

\* C3: a lookup that raises during add_item, update_item or refresh_metadata
\* never makes the call fail: no error reaches the caller and what is in
\* memory has been persisted.
C3_LookupFailureNeverAborts ==
    (pc = "done" /\ ret.lookup_raised
        /\ call.op \in {"add_item", "update_item", "refresh_metadata"})
        => (ret.res = "ok" /\ items = persisted)

\* C4: whenever a call ends with an error, the collection in memory is the
\* collection last written to the store.
C4_ErrorLeavesMemoryAsPersisted ==
    (pc = "done" /\ ret.res # "ok") => items = persisted

\* C9: every item of every persisted document has an imdb_id, a barcode or a
\* non-blank title.
C9_PersistedItemsUsable ==
    \A i \in 1..Len(persisted) :
        \/ Truthy(Get(persisted[i], "imdb_id"))
        \/ Truthy(Get(persisted[i], "barcode"))
        \/ NonBlank(Get(persisted[i], "title"))

\* C10: for every selector, remove_item resolves the position update_item
\* resolves, and finds nothing exactly when update_item finds nothing.
C10_RemoveResolvesAsUpdate ==
    \A sel \in Selectors : remove_resolve(items, sel) = update_resolve(items, sel)

C6_MergeKeepsTitle ==
    [][(Ran("add_item") /\ ret'.res = "ok"
            /\ Get(call'.data, "title") = None
            /\ Get(call'.data, "box") = Str(<<"5">>)
            /\ Truthy(Get(call'.data, "imdb_id"))
            /\ Holders(items, "imdb_id", Get(call'.data, "imdb_id")) # {})
        => LET held == Holders(items, "imdb_id", Get(call'.data, "imdb_id"))
               left == Holders(items', "imdb_id", Get(call'.data, "imdb_id"))
           IN /\ Cardinality(left) = 1
              /\ \A i \in left : /\ Get(items'[i], "box") = Num(5)
                                 /\ Get(items'[i], "title") = Get(items[Min(held)], "title")]_vars

\* a box that is absent, None or blank text
BlankBox(b) == b = None \/ (b.t = "str" /\ \A i \in 1..Len(b.s) : b.s[i] = " ")

\* C7: an add_item that matches an item leaves its box as it was when the
\* input's box is absent, None or blank text, and sets it to the input's
\* box otherwise.
C7_MergeKeepsBoxUnlessSupplied ==
    [][(Ran("add_item") /\ ret'.res = "ok" /\ ret'.idx # 0)
        => /\ Len(items') = Len(items)
           /\ IF BlankBox(Get(call'.data, "box"))
              THEN Get(items'[ret'.idx], "box") = Get(items[ret'.idx], "box")
              ELSE /\ Get(items'[ret'.idx], "box") # None
                   /\ Get(items'[ret'.idx], "box") = _parse_box(Get(call'.data, "box"))]_vars

\* an add_item with a blank box has merged into an item whose box is 5
C7_Witness ==
    /\ pc = "done" /\ call.op = "add_item" /\ ret.res = "ok" /\ ret.idx # 0
    /\ Get(call.data, "box") = Str(<<" ">>)
    /\ Get(items[ret.idx], "box") = Num(5)

\* C8: the box of every item is None or an integer that is not negative.
C8_BoxNonNegative ==
    \A i \in 1..Len(items) :
        \/ Get(items[i], "box") = None
        \/ (Get(items[i], "box").t = "int" /\ Get(items[i], "box").n >= 0)

\* the position C11 names for a candidate: the first holder of its imdb_id when
\* it has one, else the first holder of its barcode when it has one, else the
\* first item with its title (when it has one) and with its year or any year
\* when it has none; 0 when there is none
C11_Target(its, c) ==
    LET byId == IF Truthy(Get(c, "imdb_id"))
                THEN Holders(its, "imdb_id", Get(c, "imdb_id")) ELSE {}
        byBarcode == IF Truthy(Get(c, "barcode"))
                     THEN Holders(its, "barcode", Get(c, "barcode")) ELSE {}
        byTitle == IF Truthy(Get(c, "title"))
                   THEN {i \in Holders(its, "title", Get(c, "title")) :
                            \/ ~Truthy(Get(c, "year"))
                            \/ Get(its[i], "year") = Get(c, "year")}
                   ELSE {}
    IN IF byId # {} THEN Min(byId)
       ELSE IF byBarcode # {} THEN Min(byBarcode)
       ELSE IF byTitle # {} THEN Min(byTitle)
       ELSE 0

\* C11: an add_item that persists merges its candidate (the input after the
\* lookup, whose identity fields the merged or appended item carries) into the
\* item the precedence imdb_id, barcode, title with year names and changes no
\* other item; when the precedence names none, the candidate is appended and
\* the collection is one longer.
C11_AddMatchPrecedence ==
    [][(Ran("add_item") /\ ret'.saves = 1)
        => LET at == IF ret'.idx # 0 THEN ret'.idx ELSE Len(items')
               tgt == C11_Target(items, items'[at])
           IN /\ ret'.idx = tgt
              /\ IF tgt = 0
                 THEN /\ Len(items') = Len(items) + 1
                      /\ SubSeq(items', 1, Len(items)) = items
                 ELSE /\ Len(items') = Len(items)
                      /\ \A i \in 1..Len(items) : i # tgt => items'[i] = items[i]]_vars

\* an add_item merged into the second item, which holds the input's imdb_id,
\* while the first item holds the input's barcode
C11_Witness ==
    /\ pc = "done" /\ call.op = "add_item" /\ ret.saves = 1 /\ ret.idx = 2
    /\ Truthy(Get(call.data, "barcode")) /\ Truthy(Get(call.data, "imdb_id"))
    /\ Get(items[1], "barcode") = Get(call.data, "barcode")
    /\ Get(items[1], "imdb_id") # Get(call.data, "imdb_id")
    /\ Get(items[2], "imdb_id") = Get(call.data, "imdb_id")

\* C12: remove_index with an integer index that is negative or not below the
\* length of the collection fails with ValueError, leaves the collection and
\* the store as they were and neither saves nor signals; with an index that
\* is a position it removes the item at that position and no other, keeping
\* the others in order, and persists.
C12_RemoveIndexRange ==
    [][(Ran("remove_index") /\ call'.index.t = "int")
        => LET n == call'.index.n IN
           IF n < 0 \/ n >= Len(items)
           THEN /\ ret'.res = "ValueError"
                /\ items' = items /\ persisted' = persisted
                /\ ret'.saves = 0 /\ ret'.signals = 0
           ELSE /\ ret'.res = "ok"
                /\ Len(items') = Len(items) - 1
                /\ \A i \in 1..Len(items') :
                        items'[i] = IF i <= n THEN items[i] ELSE items[i + 1]
                /\ persisted' = items' /\ ret'.saves = 1]_vars

\* remove_index was given the length of a collection of two items, and failed
C12_Witness ==
    /\ pc = "done" /\ call.op = "remove_index" /\ ret.res = "ValueError"
    /\ Len(items) = 2 /\ call.index = Num(Len(items))

\* no item holds the value of any key the selector populates
C13_ResolvesToNone(its, selector) ==
    \A k \in {"imdb_id", "barcode", "title"} :
        Truthy(Get(selector, k)) => Holders(its, k, Get(selector, k)) = {}

\* C13: update_item, and set_box given a box, with a selector that resolves
\* to no item fail with ValueError (item not found), change no item and
\* neither save nor signal.
C13_UpdateNotFound ==
    [][((Ran("update_item") \/ (Ran("set_box") /\ call'.box # None))
            /\ C13_ResolvesToNone(items, call'.selector))
        => /\ ret'.res = "ValueError"
           /\ items' = items /\ persisted' = persisted
           /\ ret'.saves = 0 /\ ret'.signals = 0]_vars

\* update_item({title: Dune}, {box: 7}) has failed on a collection that is
\* not empty and has no Dune
C13_Witness ==
    /\ pc = "done" /\ call.op = "update_item" /\ ret.res = "ValueError"
    /\ call.selector = [title |-> Str(Dune)] /\ call.updates = [box |-> Num(7)]
    /\ items # <<>> /\ Holders(items, "title", Str(Dune)) = {}

\* C14's empty item: title, year, barcode and imdb_id are each absent, None
\* or text of spaces only
C14_Empty(it) ==
    \A k \in {"title", "year", "barcode", "imdb_id"} :
        \/ Get(it, k) = None
        \/ (Get(it, k).t = "str" /\ \A i \in 1..Len(Get(it, k).s) : Get(it, k).s[i] = " ")

\* the items of a collection that are not empty, in order
RECURSIVE C14_Kept(_)
C14_Kept(its) ==
    IF its = <<>> THEN <<>>
    ELSE (IF C14_Empty(Head(its)) THEN <<>> ELSE <<Head(its)>>) \o C14_Kept(Tail(its))

\* C14: purge_nulls leaves exactly the items that are not empty, in order,
\* whatever their box and metadata, and returns how many it removed; purging
\* what it leaves removes nothing, so a second purge_nulls right after it
\* returns 0 and leaves the collection as it is.
C14_PurgeIdempotent ==
    [][Ran("purge_nulls")
        => /\ items' = C14_Kept(items)
           /\ ret'.val = Num(Cardinality({i \in 1..Len(items) : C14_Empty(items[i])}))
           /\ persisted' = items'
           /\ purge_filter(items') = items'
           /\ (\A i \in 1..Len(items) : ~C14_Empty(items[i]))
                => (items' = items /\ ret'.val = Num(0))]_vars

\* purge_nulls has removed one item and kept another, which has metadata
C14_Witness ==
    /\ pc = "done" /\ call.op = "purge_nulls" /\ ret.val = Num(1)
    /\ Len(items) = 1 /\ persisted = items
    /\ Get(items[1], "plot") # None

\* the box values a move_box call can name: those that parse to an integer
C15_Boxes == {b \in MoveBoxValues : ~_parse_box_raises(b) /\ _parse_box(b) # None}

\* C15: in every state of the store and for all boxes A and B that differ,
\* move_box(A, B) followed by move_box(B, A) leaves every item whose box was A
\* with box A.
C15_MoveBoxRoundTrip ==
    \A A, B \in C15_Boxes :
        _parse_box(A) # _parse_box(B)
            => LET there == move_box_items(items, _parse_box(A), _parse_box(B))
                   back == move_box_items(there, _parse_box(B), _parse_box(A))
               IN \A i \in 1..Len(items) :
                    Get(items[i], "box") = _parse_box(A)
                        => Get(back[i], "box") = Get(items[i], "box")

\* move_box(7, 5) has moved the second of two items back beside the first
C15_Witness ==
    /\ pc = "done" /\ call.op = "move_box" /\ ret.res = "ok" /\ ret.val = Num(1)
    /\ call.from_box = Num(7) /\ call.to_box = Str(<<"5">>)
    /\ Len(items) = 2
    /\ Get(items[1], "box") = Num(5) /\ Get(items[2], "box") = Num(5)

\* two items agree on every field outside keys
C16_SameBut(a, b, keys) ==
    \A k \in ((DOMAIN a) \cup (DOMAIN b)) \ keys : Get(a, k) = Get(b, k)

\* sub is its with some items taken out, the others in their order
RECURSIVE C16_IsSubSeq(_, _)
C16_IsSubSeq(sub, its) ==
    IF sub = <<>> THEN TRUE
    ELSE IF its = <<>> THEN FALSE
    ELSE IF Head(sub) = Head(its) /\ C16_IsSubSeq(Tail(sub), Tail(its)) THEN TRUE
    ELSE C16_IsSubSeq(sub, Tail(its))

\* the fields a lookup writes
C16_MetaKeys == {"title", "year", "imdb_id", "plot", "poster"}

C17_Trimmed(s) ==
    LET inside == {i \in 1..Len(s) : s[i] # " "}
    IN IF inside = {} THEN <<>>
       ELSE SubSeq(s, Min(inside), CHOOSE j \in inside : \A i \in inside : i <= j)

C17_Digit == ("0" :> 0) @@ ("1" :> 1) @@ ("2" :> 2) @@ ("3" :> 3) @@ ("4" :> 4)
             @@ ("5" :> 5) @@ ("6" :> 6) @@ ("7" :> 7) @@ ("8" :> 8) @@ ("9" :> 9)

\* the number a text of digits writes, read from the left
RECURSIVE C17_Number(_, _)
C17_Number(acc, s) ==
    IF s = <<>> THEN acc ELSE C17_Number(10 * acc + C17_Digit[Head(s)], Tail(s))

C17_Error == [t |-> "error"]

\* the box-parsing rule as C17 states it
C17_Rule(v) ==
    IF v = None THEN None
    ELSE IF v.t = "int" THEN v
    ELSE IF v.t = "str"
    THEN LET w == C17_Trimmed(v.s) IN
         IF w = <<>> THEN None
         ELSE IF \A i \in 1..Len(w) : w[i] \in DOMAIN C17_Digit
         THEN Num(C17_Number(0, w))
         ELSE C17_Error
    ELSE C17_Error

\* C17: whatever box an update_item on an existing item or an add_item is
\* given, the call fails with ValueError and writes nothing exactly when the
\* rule gives an error, and otherwise the box the rule gives is the box
\* update_item stores and the box of the item add_item appends.
C17_ParseBoxRule ==
    [][/\ (Ran("update_item") /\ ret'.idx # 0)
            => IF C17_Rule(call'.updates.box) = C17_Error
               THEN ret'.res = "ValueError" /\ items' = items /\ ret'.saves = 0
               ELSE /\ ret'.res = "ok"
                    /\ Get(items'[ret'.idx], "box") = C17_Rule(call'.updates.box)
       /\ Ran("add_item")
            => IF C17_Rule(call'.data.box) = C17_Error
               THEN ret'.res = "ValueError" /\ items' = items /\ ret'.saves = 0
               ELSE /\ ret'.res = "ok"
                    /\ Len(items') > Len(items)
                        => Get(items'[Len(items')], "box") = C17_Rule(call'.data.box)]_vars

\* update_item was given the box " 12" and has stored 12
C17_Witness ==
    /\ pc = "done" /\ call.op = "update_item" /\ ret.res = "ok" /\ ret.idx = 1
    /\ call.updates = [box |-> Str(<<" ", "1", "2">>)]
    /\ Get(items[1], "box") = Num(12)

\* C18: move_box whose endpoints both parse to an integer sets the box of the
\* items whose box is from to to and leaves every other item and every other
\* field as it was, returns how many items it touched, and saves and signals
\* once when that number is above 0 and not at all when it is 0; when an
\* endpoint is None, blank or unparseable it fails with ValueError and
\* changes nothing.
C18_MoveBox ==
    [][Ran("move_box")
        => LET a == C17_Rule(call'.from_box)
               b == C17_Rule(call'.to_box)
               touched == {i \in 1..Len(items) : Get(items[i], "box") = a}
           IN IF a \in {None, C17_Error} \/ b \in {None, C17_Error}
              THEN /\ ret'.res = "ValueError"
                   /\ items' = items /\ persisted' = persisted
                   /\ ret'.saves = 0 /\ ret'.signals = 0
              ELSE /\ ret'.res = "ok"
                   /\ Len(items') = Len(items)
                   /\ \A i \in 1..Len(items) :
                        IF i \in touched
                        THEN /\ Get(items'[i], "box") = b
                             /\ C16_SameBut(items'[i], items[i], {"box"})
                        ELSE items'[i] = items[i]
                   /\ ret'.val = Num(Cardinality(touched))
                   /\ ret'.saves = (IF touched # {} THEN 1 ELSE 0)
                   /\ ret'.signals = ret'.saves
                   /\ persisted' = IF touched # {} THEN items' ELSE persisted]_vars

\* move_box("5", 7) has moved one of two items and left the other
C18_Witness ==
    /\ pc = "done" /\ call.op = "move_box" /\ ret.res = "ok" /\ ret.val = Num(1)
    /\ call.from_box = Str(<<"5">>) /\ call.to_box = Num(7)
    /\ Len(items) = 2
    /\ Get(items[1], "box") = Num(7) /\ Get(items[2], "box") = Num(-1)

\* C19: refresh_metadata without an OMDb key changes nothing, neither saves
\* nor signals and raises nothing; with a key it ends without error having
\* saved and signalled exactly once, with what it left in memory persisted.
C19_RefreshSavesOnce ==
    [][Ran("refresh_metadata")
        => IF ~Truthy(api_key)
           THEN /\ ret'.res = "ok" /\ items' = items /\ persisted' = persisted
                /\ ret'.saves = 0 /\ ret'.signals = 0
           ELSE /\ ret'.res = "ok" /\ ret'.saves = 1 /\ ret'.signals = 1
                /\ persisted' = items']_vars

\* C20: an import_json that ends with a validation error has persisted
\* nothing: the store holds what it held before the import.
C20_ImportNoPartialPersistence ==
    [][(Ran("import_json") /\ ret'.res = "ValueError")
        => (persisted' = persisted /\ ret'.saves = 0)]_vars

\* a handler waiting for a lookup that has returned metadata is resumed: it
\* ends, or goes on to its next target
C21_Resumed ==
    /\ suspended # NoFrame
    /\ suspended.result.kind = "meta"
    /\ pc = "idle"
    /\ suspended' = NoFrame \/ suspended'.j # suspended.j

\* C21: when update_item or refresh_metadata is resumed with the metadata of
\* its lookup, whatever calls have run while it waited, the metadata is merged
\* into the item it resolved before the lookup and into no other: the resolved
\* item is still held, it alone changes, by the merge, and the handler does not
\* fail with the position of the merge out of range.
C21_MergeIntoResolved ==
    [][C21_Resumed
        => /\ suspended.at # 0
           /\ items' = [items EXCEPT
                          ![suspended.at] = DictUpdate(@, suspended.result.meta)]
           /\ (suspended' = NoFrame /\ ret'.res = "IndexError")
                => ret'.idx # suspended.targets[suspended.j]]_vars

====
